---- MODULE Spec2Model ----
(***************************************************************************)
(* N-body gravitational simulation (src/main.py): console configuration,   *)
(* system creation with centre-of-mass velocity correction, the per-frame  *)
(* velocity pass / position pass, and the boundary-exit restart.           *)
(*                                                                         *)
(* Python floats are modelled as binary floating-point numbers             *)
(* [m |-> mantissa, e |-> exponent] of value m * 2^e with a normalised     *)
(* mantissa of MantissaBits bits; every arithmetic operation of the code   *)
(* is one rounded operation of the model.                                  *)
(***************************************************************************)
EXTENDS Integers, Sequences, FiniteSets, TLC

(* ------------------------------------------------------------------ *)
(* Floating point                                                      *)
(* ------------------------------------------------------------------ *)

\* Bits of the significand (53 in a Python float; 15 here so that a product
\* of two significands stays a machine integer of the model checker).
MantissaBits == 15

\* The powers of two 2^0 .. 2^30.
Pow2Table == [k \in 1..31 |-> 2 ^ (k - 1)]

Pow2(k) == Pow2Table[k + 1]

Abs(n) == IF n < 0 THEN -n ELSE n

Sign(n) == IF n < 0 THEN -1 ELSE 1

\* Number of bits of a positive integer a < 2^31.
RECURSIVE BitLenBetween(_, _, _)
BitLenBetween(a, lo, hi) ==
    IF lo = hi THEN lo
    ELSE LET mid == (lo + hi) \div 2
         IN  IF a < Pow2(mid) THEN BitLenBetween(a, lo, mid)
             ELSE BitLenBetween(a, mid + 1, hi)

BitLen(a) == BitLenBetween(a, 1, 31)

FZero == [m |-> 0, e |-> 0]

\* The float nearest to n * 2^e (round half away from zero), |n| < 2^31.
Norm(n, e) ==
    IF n = 0 THEN FZero
    ELSE LET a == Abs(n)
             L == BitLen(a)
         IN  IF L <= MantissaBits
             THEN [m |-> Sign(n) * a * Pow2(MantissaBits - L), e |-> e - (MantissaBits - L)]
             ELSE LET s == L - MantissaBits
                      q == (a \div Pow2(s)) + ((a \div Pow2(s - 1)) % 2)
                  IN  IF q = Pow2(MantissaBits)
                      THEN [m |-> Sign(n) * Pow2(MantissaBits - 1), e |-> e + s + 1]
                      ELSE [m |-> Sign(n) * q, e |-> e + s]

\* float(n) for an integer n.
FromInt(n) == Norm(n, 0)

FNeg(x) == [m |-> -x.m, e |-> x.e]

\* x + y
FAdd(x, y) ==
    IF x.m = 0 THEN y
    ELSE IF y.m = 0 THEN x
    ELSE LET hi == IF x.e >= y.e THEN x ELSE y
             lo == IF x.e >= y.e THEN y ELSE x
             d  == hi.e - lo.e
         IN  IF d > MantissaBits THEN hi
             ELSE Norm(hi.m * Pow2(d) + lo.m, lo.e)

\* x - y
FSub(x, y) == FAdd(x, FNeg(y))

\* x * y
FMul(x, y) == Norm(x.m * y.m, x.e + y.e)

\* x / y, y nonzero
FDiv(x, y) ==
    LET q == (Abs(x.m) * Pow2(MantissaBits + 1)) \div Abs(y.m)
    IN  Norm(Sign(x.m) * Sign(y.m) * q, x.e - y.e - (MantissaBits + 1))

\* x < y
FLess(x, y) == FSub(x, y).m < 0

\* x <= y
FLeq(x, y) == FSub(x, y).m <= 0

\* abs(x)
FAbs(x) == [m |-> Abs(x.m), e |-> x.e]

\* Largest r in lo..hi with r * r <= v (lo * lo <= v).
RECURSIVE IsqrtBetween(_, _, _)
IsqrtBetween(v, lo, hi) ==
    IF lo >= hi THEN lo
    ELSE LET mid == (lo + hi + 1) \div 2
         IN  IF mid * mid <= v THEN IsqrtBetween(v, mid, hi)
             ELSE IsqrtBetween(v, lo, mid - 1)

\* math.sqrt(x), x >= 0
FSqrt(x) ==
    IF x.m = 0 THEN FZero
    ELSE LET odd == (x.e % 2) = 1
             n   == IF odd THEN 2 * x.m ELSE x.m
             ev  == IF odd THEN x.e - 1 ELSE x.e
             v   == n * Pow2(MantissaBits - 1)
         IN  Norm(IsqrtBetween(v, 0, Pow2(MantissaBits)), (ev - (MantissaBits - 1)) \div 2)

\* int(x): truncation toward zero, |x| < 2^30
FTrunc(x) ==
    IF x.m = 0 THEN 0
    ELSE IF x.e >= 0 THEN x.m * Pow2(x.e)
    ELSE IF -x.e >= 31 THEN 0
    ELSE Sign(x.m) * (Abs(x.m) \div Pow2(-x.e))

(* ------------------------------------------------------------------ *)
(* Simulation parameters                                               *)
(* ------------------------------------------------------------------ *)

WIDTH == 800

HEIGHT == 800

TRAIL_LENGTH == 100

DT == 1

MARGIN == 100

\* G = 6.67430e-2
G == FDiv(FromInt(66743), FromInt(1000000))

\* SOFTENING = 10.0
SOFTENING == FromInt(10)

(* ------------------------------------------------------------------ *)
(* Body                                                                *)
(* ------------------------------------------------------------------ *)

\* Body.__init__: a new object (identity id) with an empty trail.
Body(id, x, y, vx, vy, mass, color) ==
    [id |-> id, x |-> x, y |-> y, vx |-> vx, vy |-> vy,
     mass |-> mass, color |-> color, trail |-> <<>>]

\* update_position without the eviction of the oldest trail entry.
update_position_unbounded(self) ==
    LET x1 == FAdd(self.x, FMul(self.vx, FromInt(DT)))
        y1 == FAdd(self.y, FMul(self.vy, FromInt(DT)))
    IN  [self EXCEPT !.x = x1, !.y = y1, !.trail = Append(self.trail, <<x1, y1>>)]

\* update_position that appends the position to the trail before it moves.
update_position_stale(self) ==
    LET x1 == FAdd(self.x, FMul(self.vx, FromInt(DT)))
        y1 == FAdd(self.y, FMul(self.vy, FromInt(DT)))
        t1 == Append(self.trail, <<self.x, self.y>>)
    IN  [self EXCEPT !.x = x1, !.y = y1,
                     !.trail = IF Len(t1) > TRAIL_LENGTH THEN Tail(t1) ELSE t1]

\* Body.update_position
update_position(self) ==
    LET x1 == FAdd(self.x, FMul(self.vx, FromInt(DT)))
        y1 == FAdd(self.y, FMul(self.vy, FromInt(DT)))
        t1 == Append(self.trail, <<x1, y1>>)
    IN  [self EXCEPT !.x = x1, !.y = y1,
                     !.trail = IF Len(t1) > TRAIL_LENGTH THEN Tail(t1) ELSE t1]

\* math.sin(math.pi) = 1.2246e-16: the double nearest to pi is not pi.
SinPi == [m |-> 18073, e |-> -67]

\* math.cos(math.pi / 2) = 6.1232e-17
CosHalfPi == [m |-> 18073, e |-> -68]

\* math.cos(math.atan2(dy, dx)): atan2(0, 0) is 0, whose cosine is 1;
\* atan2(dy, 0) is +-pi/2 for dy # 0.
CosAtan2(dy, dx) ==
    IF dx.m = 0 /\ dy.m = 0 THEN FromInt(1)
    ELSE IF dx.m = 0 THEN CosHalfPi
    ELSE FDiv(dx, FSqrt(FAdd(FMul(dx, dx), FMul(dy, dy))))

\* math.sin(math.atan2(dy, dx)): atan2(0, dx) is 0 for dx >= 0 and pi for dx < 0.
SinAtan2(dy, dx) ==
    IF dy.m = 0 THEN (IF dx.m < 0 THEN SinPi ELSE FZero)
    ELSE FDiv(dy, FSqrt(FAdd(FMul(dx, dx), FMul(dy, dy))))

\* compute_gravitational_force with the force falling off with the distance
\* instead of its square.
compute_gravitational_force_linear(body1, body2) ==
    LET dx == FSub(body2.x, body1.x)
        dy == FSub(body2.y, body1.y)
        distance_sq == FAdd(FAdd(FMul(dx, dx), FMul(dy, dy)), FMul(SOFTENING, SOFTENING))
        force == FDiv(FMul(FMul(G, body1.mass), body2.mass), FSqrt(distance_sq))
    IN  <<FMul(force, CosAtan2(dy, dx)), FMul(force, SinAtan2(dy, dx))>>

\* compute_gravitational_force(body1, body2): <<fx, fy>>
compute_gravitational_force(body1, body2) ==
    LET dx == FSub(body2.x, body1.x)
        dy == FSub(body2.y, body1.y)
        distance_sq == FAdd(FAdd(FMul(dx, dx), FMul(dy, dy)), FMul(SOFTENING, SOFTENING))
        force == FDiv(FMul(FMul(G, body1.mass), body2.mass), distance_sq)
    IN  <<FMul(force, CosAtan2(dy, dx)), FMul(force, SinAtan2(dy, dx))>>

\* One pass of the inner loop of update_velocities: the acceleration of body
\* by other is added to acc = <<ax_total, ay_total, pairs evaluated>>; f is
\* compute_gravitational_force(body, other).
Accumulated(acc, f, body, other) ==
    <<FAdd(acc[1], FDiv(f[1], body.mass)),
      FAdd(acc[2], FDiv(f[2], body.mass)),
      Append(acc[3], <<body.id, other.id>>)>>

\* The inner loop of update_velocities for bodies[i], from other = bodies[j] on.
RECURSIVE AccumulateFrom(_, _, _, _)
AccumulateFrom(bs, i, j, acc) ==
    IF j > Len(bs) THEN acc
    ELSE IF bs[i].id = bs[j].id THEN AccumulateFrom(bs, i, j + 1, acc)
    ELSE AccumulateFrom(bs, i, j + 1,
             Accumulated(acc, compute_gravitational_force(bs[i], bs[j]), bs[i], bs[j]))

\* body.vx += ax_total * DT; body.vy += ay_total * DT
Accelerated(body, acc) ==
    [body EXCEPT !.vx = FAdd(body.vx, FMul(acc[1], FromInt(DT))),
                 !.vy = FAdd(body.vy, FMul(acc[2], FromInt(DT)))]

\* The outer loop of update_velocities from bodies[i] on; each body's velocity
\* is written into the list before the next body is handled.
RECURSIVE UpdateFrom(_, _, _)
RECURSIVE UpdateWith(_, _, _, _)
UpdateFrom(bs, i, pairs) ==
    IF i > Len(bs) THEN [bodies |-> bs, pairs |-> pairs]
    ELSE UpdateWith(bs, i, pairs, AccumulateFrom(bs, i, 1, <<FZero, FZero, <<>>>>))

UpdateWith(bs, i, pairs, acc) ==
    UpdateFrom([bs EXCEPT ![i] = Accelerated(bs[i], acc)], i + 1, pairs \o acc[3])

\* update_velocities as a single pass: each body is moved as soon as its
\* velocity is known, so later bodies see its new position.
RECURSIVE MovingFrom(_, _, _)
MovingFrom(bs, i, pairs) ==
    IF i > Len(bs) THEN [bodies |-> bs, pairs |-> pairs]
    ELSE LET acc == AccumulateFrom(bs, i, 1, <<FZero, FZero, <<>>>>)
         IN  MovingFrom([bs EXCEPT ![i] = update_position(Accelerated(bs[i], acc))],
                        i + 1, pairs \o acc[3])

update_velocities_moving(bs) == MovingFrom(bs, 1, <<>>)

\* update_velocities(bodies): the list after the call, and the pairs evaluated.
update_velocities(bs) == UpdateFrom(bs, 1, <<>>)

\* for body in bodies: body.update_position()
RECURSIVE MoveFrom(_, _)
MoveFrom(bs, i) ==
    IF i > Len(bs) THEN bs
    ELSE MoveFrom([bs EXCEPT ![i] = update_position(bs[i])], i + 1)

update_positions(bs) == MoveFrom(bs, 1)

\* all_bodies_outside(bodies), from bodies[i] on: False at the first body inside.
RECURSIVE OutsideFrom(_, _)
OutsideFrom(bs, i) ==
    IF i > Len(bs) THEN TRUE
    ELSE IF /\ FLess(FromInt(0 - MARGIN), bs[i].x) /\ FLess(bs[i].x, FromInt(WIDTH + MARGIN))
            /\ FLess(FromInt(0 - MARGIN), bs[i].y) /\ FLess(bs[i].y, FromInt(HEIGHT + MARGIN))
         THEN FALSE
         ELSE OutsideFrom(bs, i + 1)

\* all_bodies_outside with `return True` inside the loop: only the first body
\* is looked at.
all_bodies_outside_first(bs) ==
    IF bs = <<>> THEN TRUE
    ELSE ~(/\ FLess(FromInt(0 - MARGIN), bs[1].x) /\ FLess(bs[1].x, FromInt(WIDTH + MARGIN))
           /\ FLess(FromInt(0 - MARGIN), bs[1].y) /\ FLess(bs[1].y, FromInt(HEIGHT + MARGIN)))

\* all_bodies_outside with <= in place of <.
all_bodies_outside_closed(bs) ==
    \A i \in 1..Len(bs) :
        ~(/\ FLeq(FromInt(0 - MARGIN), bs[i].x) /\ FLeq(bs[i].x, FromInt(WIDTH + MARGIN))
          /\ FLeq(FromInt(0 - MARGIN), bs[i].y) /\ FLeq(bs[i].y, FromInt(HEIGHT + MARGIN)))

\* all_bodies_outside with `or` in place of `and` between the two axes.
all_bodies_outside_either(bs) ==
    \A i \in 1..Len(bs) :
        ~(\/ FLess(FromInt(0 - MARGIN), bs[i].x) /\ FLess(bs[i].x, FromInt(WIDTH + MARGIN))
          \/ FLess(FromInt(0 - MARGIN), bs[i].y) /\ FLess(bs[i].y, FromInt(HEIGHT + MARGIN)))

all_bodies_outside(bs) == OutsideFrom(bs, 1)

(* ------------------------------------------------------------------ *)
(* Console input                                                       *)
(* ------------------------------------------------------------------ *)

\* A line read by input() is a sequence of characters.
DigitChars == <<"0", "1", "2", "3", "4", "5", "6", "7", "8", "9">>

IsDigit(c) == \E k \in 1..10 : DigitChars[k] = c

DigitVal(c) == (CHOOSE k \in 1..10 : DigitChars[k] = c) - 1

\* The value of a sequence of decimal digits.
RECURSIVE DecimalValue(_)
DecimalValue(ds) ==
    IF Len(ds) = 0 THEN 0
    ELSE 10 * DecimalValue(SubSeq(ds, 1, Len(ds) - 1)) + DigitVal(ds[Len(ds)])

Unsigned(line) ==
    IF Len(line) > 0 /\ line[1] \in {"+", "-"} THEN Tail(line) ELSE line

LineSign(line) == IF Len(line) > 0 /\ line[1] = "-" THEN -1 ELSE 1

\* int(line): an optional sign and one or more digits, ValueError otherwise.
ParseInt(line) ==
    LET ds == Unsigned(line)
    IN  IF Len(ds) > 0 /\ \A k \in 1..Len(ds) : IsDigit(ds[k])
        THEN [ok |-> TRUE, val |-> LineSign(line) * DecimalValue(ds)]
        ELSE [ok |-> FALSE, val |-> 0]

\* float(line): an optional sign and digits with at most one point, ValueError
\* otherwise.
ParseFloat(line) ==
    LET ds     == Unsigned(line)
        points == {k \in 1..Len(ds) : ds[k] = "."}
        p      == IF points = {} THEN Len(ds) + 1 ELSE CHOOSE k \in points : TRUE
        digits == SubSeq(ds, 1, p - 1) \o SubSeq(ds, p + 1, Len(ds))
        nfrac  == IF points = {} THEN 0 ELSE Len(ds) - p
    IN  IF /\ Cardinality(points) <= 1
           /\ Len(digits) > 0
           /\ \A k \in 1..Len(digits) : IsDigit(digits[k])
        THEN [ok |-> TRUE,
              val |-> FDiv(FromInt(LineSign(line) * DecimalValue(digits)), FromInt(10 ^ nfrac))]
        ELSE [ok |-> FALSE, val |-> FZero]

\* str.upper() on the letters of the input alphabet.
Upper(line) ==
    [k \in 1..Len(line) |->
        IF line[k] = "y" THEN "Y" ELSE IF line[k] = "n" THEN "N" ELSE line[k]]

(* ------------------------------------------------------------------ *)
(* Colours                                                             *)
(* ------------------------------------------------------------------ *)

\* colorsys.hsv_to_rgb(h, s, v)
hsv_to_rgb(h, s, v) ==
    IF s.m = 0 THEN <<v, v, v>>
    ELSE LET h6 == FMul(h, FromInt(6))
             i  == FTrunc(h6)
             f  == FSub(h6, FromInt(i))
             p  == FMul(v, FSub(FromInt(1), s))
             q  == FMul(v, FSub(FromInt(1), FMul(s, f)))
             t  == FMul(v, FSub(FromInt(1), FMul(s, FSub(FromInt(1), f))))
             k  == i % 6
         IN  CASE k = 0 -> <<v, t, p>>
               [] k = 1 -> <<q, v, p>>
               [] k = 2 -> <<p, v, t>>
               [] k = 3 -> <<p, q, v>>
               [] k = 4 -> <<t, p, v>>
               [] OTHER -> <<v, p, q>>

\* The colours get_user_input returns: one hue i/num_bodies per body.
Colors(n) ==
    [i \in 1..n |->
        LET rgb == hsv_to_rgb(FDiv(FromInt(i - 1), FromInt(n)),
                              FDiv(FromInt(9), FromInt(10)), FDiv(FromInt(9), FromInt(10)))
        IN  <<FTrunc(FMul(FromInt(255), rgb[1])),
              FTrunc(FMul(FromInt(255), rgb[2])),
              FTrunc(FMul(FromInt(255), rgb[3]))>>]

(* ------------------------------------------------------------------ *)
(* Random numbers and system creation                                  *)
(* ------------------------------------------------------------------ *)

\* The generator behind random.uniform is a deterministic stream over a state;
\* a linear congruential stream of MantissaBits bits stands for it.
RngNext(s) == (s * 20077 + 12345) % Pow2(MantissaBits)

\* The states of the next k draws.
RECURSIVE Draws(_, _)
Draws(s, k) == IF k = 0 THEN <<>> ELSE <<RngNext(s)>> \o Draws(RngNext(s), k - 1)

\* random.random() of a state: a float in [0, 1).
Random01(s) == FDiv(FromInt(s), FromInt(Pow2(MantissaBits)))

\* random.uniform(a, b) = a + (b - a) * random()
Uniform(a, b, s) == FAdd(FromInt(a), FMul(FromInt(b - a), Random01(s)))

\* sum(xs) of a list of floats, left to right from 0.
RECURSIVE FSum(_)
FSum(xs) ==
    IF Len(xs) = 0 THEN FZero
    ELSE FAdd(FSum(SubSeq(xs, 1, Len(xs) - 1)), xs[Len(xs)])

\* The centre-of-mass velocity correction of create_system: <<vx_com, vy_com>>.
\* The correction with the plain mean of the velocities in place of the
\* mass-weighted one.
CenterOfMassVelocity_unweighted(masses, velocities) ==
    LET n == Len(velocities)
    IN  <<FDiv(FSum([i \in 1..n |-> velocities[i][1]]), FromInt(n)),
          FDiv(FSum([i \in 1..n |-> velocities[i][2]]), FromInt(n))>>

CenterOfMassVelocity(masses, velocities) ==
    LET total_mass == FSum(masses)
        n          == Len(velocities)
    IN  <<FDiv(FSum([i \in 1..n |-> FMul(masses[i], velocities[i][1])]), total_mass),
          FDiv(FSum([i \in 1..n |-> FMul(masses[i], velocities[i][2])]), total_mass)>>

\* The n sampled masses: random.uniform(1000, 3000) each, or the manual ones.
SampledMasses(n, rm, mm, d) ==
    IF rm THEN [i \in 1..n |-> Uniform(1000, 3000, d[i])] ELSE mm

\* The n sampled positions, from draw k + 1 on.
SampledPositions(n, d, k) ==
    [i \in 1..n |->
        <<FAdd(FDiv(FromInt(WIDTH), FromInt(2)), Uniform(-200, 200, d[k + 2 * i - 1])),
          FAdd(FDiv(FromInt(HEIGHT), FromInt(2)), Uniform(-200, 200, d[k + 2 * i]))>>]

\* The n sampled velocities, from draw k + 1 on.
SampledVelocities(n, d, k) ==
    [i \in 1..n |->
        <<FMul(Uniform(-1, 1, d[k + 2 * i - 1]), FDiv(FromInt(1), FromInt(2))),
          FMul(Uniform(-1, 1, d[k + 2 * i]), FDiv(FromInt(1), FromInt(2)))>>]

\* The loop of create_system that constructs the bodies.
Corrected(n, masses, positions, velocities, com, colors, firstId) ==
    [i \in 1..n |->
        Body(firstId + i - 1, positions[i][1], positions[i][2],
             FSub(velocities[i][1], com[1]), FSub(velocities[i][2], com[2]),
             masses[i], colors[i])]

\* create_system from its samples on.
Assembled(n, masses, positions, velocities, colors, firstId) ==
    Corrected(n, masses, positions, velocities, CenterOfMassVelocity(masses, velocities),
              colors, firstId)

\* create_system from the draws d on; k of them are masses.
Sampled(n, rm, mm, colors, d, k, firstId) ==
    [bodies |-> Assembled(n, SampledMasses(n, rm, mm, d), SampledPositions(n, d, k),
                          SampledVelocities(n, d, k + 2 * n), colors, firstId),
     rng |-> d[Len(d)]]

\* create_system() under the configuration (n, rm, mm, colors), drawing from
\* generator state s; the new objects get the identities firstId, firstId+1, ...
create_system(n, rm, mm, colors, s, firstId) ==
    Sampled(n, rm, mm, colors, Draws(s, (IF rm THEN n ELSE 0) + 4 * n),
            IF rm THEN n ELSE 0, firstId)

(* ------------------------------------------------------------------ *)
(* Bounds of the model                                                 *)
(* ------------------------------------------------------------------ *)

\* Largest body count entered in the runs that step the simulation.
MaxBodies == 3

\* Frames stepped in one run.
MaxTicks == 120

\* Number of generator seeds tried.
NumSeeds == 2

Seeds == {(2037 + 8365 * (k - 1)) % Pow2(MantissaBits) : k \in 1..NumSeeds}

\* The decimal numeral of n >= 0.
RECURSIVE Numeral(_)
Numeral(n) ==
    IF n < 10 THEN <<DigitChars[n + 1]>>
    ELSE Numeral(n \div 10) \o <<DigitChars[(n % 10) + 1]>>

\* Lines that are no body count.
BadCountLines == {<<>>, <<"a">>, <<"2", ".", "5">>, <<"-", "3">>, Numeral(0), Numeral(1), Numeral(11)}

\* Lines typed at the body-count prompt in the stepped runs.
CountLines == BadCountLines \cup {Numeral(n) : n \in 2..MaxBodies}

\* Lines typed at the body-count prompt in the configuration runs.
AllCountLines ==
    BadCountLines \cup {Numeral(2), Numeral(MaxBodies), Numeral(10), <<"+", "2">>, <<"0", "3">>}

ChoiceLines == {<<"Y">>, <<"y">>, <<"N">>, <<"n">>, <<"a">>, <<>>, <<"Y", "N">>}

\* Lines that are no mass.
BadMassLines ==
    {<<"9", "9", ".", "5">>, Numeral(10001), <<"-", "5", "0", "0">>, <<"a">>, <<>>,
     <<"1", ".", "2", ".", "3">>}

\* Lines typed at a mass prompt in the stepped runs.
MassLines == BadMassLines \cup {Numeral(10000)}

\* Lines typed at the mass prompt of body k in the configuration runs: both
\* ends of the range for the first bodies, one mass inside it for the others.
AllMassLines(k) ==
    BadMassLines \cup (IF k <= MaxBodies THEN {Numeral(100), Numeral(10000)}
                                         ELSE {Numeral(250 * k)})

(* ------------------------------------------------------------------ *)
(* The program                                                         *)
(* ------------------------------------------------------------------ *)

VARIABLES
    pc,               \* where the program is: "count", "choice", "mass", "start", "run", "exit"
    num_bodies,       \* the accepted body count (0 before it is read)
    random_masses,    \* choice == 'Y'
    manual_masses,    \* the masses accepted so far
    PARTICLE_COLORS,
    bodies,           \* the current generation
    running,
    rng,              \* state of the random generator
    nextId,           \* identity of the next Body object
    ticks,            \* frames stepped since the loop started
    born,             \* value of ticks when the current generation was created
    created,          \* <<id, mass, color>> of each body as it was constructed
    last              \* what the last step did

vars == <<pc, num_bodies, random_masses, manual_masses, PARTICLE_COLORS, bodies,
          running, rng, nextId, ticks, born, created, last>>

config == <<num_bodies, random_masses, manual_masses, PARTICLE_COLORS>>

sim == <<bodies, running, rng, nextId, ticks, born, created>>

\* A body without its trail.
Strip(b) == [id |-> b.id, x |-> b.x, y |-> b.y, vx |-> b.vx, vy |-> b.vy,
             mass |-> b.mass, color |-> b.color]

StripAll(bs) == [i \in 1..Len(bs) |-> Strip(bs[i])]

Birth(bs) == [i \in 1..Len(bs) |-> <<bs[i].id, bs[i].mass, bs[i].color>>]

Entered(prompt, line, accepted) ==
    [kind |-> "input", prompt |-> prompt, line |-> line, accepted |-> accepted]

\* The program before its first prompt.
Init ==
    /\ pc = "count"
    /\ num_bodies = 0
    /\ random_masses = FALSE
    /\ manual_masses = <<>>
    /\ PARTICLE_COLORS = <<>>
    /\ bodies = <<>>
    /\ running = TRUE
    /\ rng \in Seeds
    /\ nextId = 1
    /\ ticks = 0
    /\ born = 0
    /\ created = <<>>
    /\ last = [kind |-> "begin"]

\* One pass of the body-count loop of get_user_input.
EnterCount(line) ==
    /\ pc = "count"
    /\ LET r  == ParseInt(line)
           ok == r.ok /\ 2 <= r.val /\ r.val <= 10
       IN  /\ num_bodies' = IF ok THEN r.val ELSE num_bodies
           /\ pc' = IF ok THEN "choice" ELSE "count"
           /\ last' = Entered("count", line, ok)
    /\ UNCHANGED <<random_masses, manual_masses, PARTICLE_COLORS, sim>>

\* One pass of the mass-mode loop of get_user_input.
EnterChoice(line) ==
    /\ pc = "choice"
    /\ LET choice == Upper(line)
           ok     == choice \in {<<"Y">>, <<"N">>}
       IN  /\ random_masses' = IF ok THEN choice = <<"Y">> ELSE random_masses
           /\ pc' = IF ~ok THEN "choice" ELSE IF choice = <<"N">> THEN "mass" ELSE "start"
           /\ last' = Entered("choice", line, ok)
    /\ UNCHANGED <<num_bodies, manual_masses, PARTICLE_COLORS, sim>>

\* The mass loop with the range test left out: every number is accepted.
EnterMass_unchecked(line) ==
    /\ pc = "mass"
    /\ LET r  == ParseFloat(line)
           ok == r.ok
           ms == IF ok THEN Append(manual_masses, r.val) ELSE manual_masses
       IN  /\ manual_masses' = ms
           /\ pc' = IF Len(ms) = num_bodies THEN "start" ELSE "mass"
           /\ last' = Entered("mass", line, ok)
    /\ UNCHANGED <<num_bodies, random_masses, PARTICLE_COLORS, sim>>

\* One pass of the loop that reads the mass of body Len(manual_masses) + 1.
EnterMass(line) ==
    /\ pc = "mass"
    /\ LET r  == ParseFloat(line)
           ok == r.ok /\ FLeq(FromInt(100), r.val) /\ FLeq(r.val, FromInt(10000))
           ms == IF ok THEN Append(manual_masses, r.val) ELSE manual_masses
       IN  /\ manual_masses' = ms
           /\ pc' = IF Len(ms) = num_bodies THEN "start" ELSE "mass"
           /\ last' = Entered("mass", line, ok)
    /\ UNCHANGED <<num_bodies, random_masses, PARTICLE_COLORS, sim>>

\* get_user_input returns; the first system is created.
Start ==
    /\ pc = "start"
    /\ \E colors \in {Colors(num_bodies)} :
       \E cs \in {create_system(num_bodies, random_masses, manual_masses, colors, rng, nextId)} :
          /\ PARTICLE_COLORS' = colors
          /\ bodies' = cs.bodies
          /\ rng' = cs.rng
          /\ nextId' = nextId + num_bodies
          /\ created' = Birth(cs.bodies)
    /\ born' = ticks
    /\ pc' = "run"
    /\ last' = [kind |-> "create"]
    /\ UNCHANGED <<num_bodies, random_masses, manual_masses, running, ticks>>

\* The main loop with the restart check made before the bodies are moved.
Tick_checkfirst ==
    /\ pc = "run"
    /\ ticks < MaxTicks
    /\ \E uv \in {update_velocities(bodies)} :
       \E out \in {all_bodies_outside(uv.bodies)} :
       \E moved \in {update_positions(uv.bodies)} :
          /\ last' = [kind |-> "tick", before |-> StripAll(bodies), moved |-> StripAll(moved),
                      pairs |-> uv.pairs, outside |-> out]
          /\ IF out
             THEN \E cs \in {create_system(num_bodies, random_masses, manual_masses,
                                           PARTICLE_COLORS, rng, nextId)} :
                     /\ bodies' = cs.bodies
                     /\ rng' = cs.rng
                     /\ nextId' = nextId + num_bodies
                     /\ created' = Birth(cs.bodies)
                     /\ born' = ticks + 1
             ELSE /\ bodies' = moved
                  /\ UNCHANGED <<rng, nextId, created, born>>
    /\ ticks' = ticks + 1
    /\ \E quit \in BOOLEAN :
          /\ running' = ~quit
          /\ pc' = IF quit THEN "exit" ELSE "run"
    /\ UNCHANGED config

\* One iteration of the main loop (a pending QUIT event ends the loop after it).
Tick ==
    /\ pc = "run"
    /\ ticks < MaxTicks
    /\ \E uv \in {update_velocities(bodies)} :
       \E moved \in {update_positions(uv.bodies)} :
       \E out \in {all_bodies_outside(moved)} :
          /\ last' = [kind |-> "tick", before |-> StripAll(bodies), moved |-> StripAll(moved),
                      pairs |-> uv.pairs, outside |-> out]
          /\ IF out
             THEN \E cs \in {create_system(num_bodies, random_masses, manual_masses,
                                           PARTICLE_COLORS, rng, nextId)} :
                     /\ bodies' = cs.bodies
                     /\ rng' = cs.rng
                     /\ nextId' = nextId + num_bodies
                     /\ created' = Birth(cs.bodies)
                     /\ born' = ticks + 1
             ELSE /\ bodies' = moved
                  /\ UNCHANGED <<rng, nextId, created, born>>
    /\ ticks' = ticks + 1
    /\ \E quit \in BOOLEAN :
          /\ running' = ~quit
          /\ pc' = IF quit THEN "exit" ELSE "run"
    /\ UNCHANGED config

Next ==
    \/ \E line \in CountLines : EnterCount(line)
    \/ \E line \in ChoiceLines : EnterChoice(line)
    \/ \E line \in MassLines : EnterMass(line)
    \/ Start
    \/ Tick

\* The program from its first prompt on, stepped for MaxTicks frames.
Spec == Init /\ [][Next]_vars

NextConfig ==
    \/ \E line \in AllCountLines : EnterCount(line)
    \/ \E line \in ChoiceLines : EnterChoice(line)
    \/ \E line \in AllMassLines(Len(manual_masses) + 1) : EnterMass(line)
    \/ Start

\* The program from its first prompt to the creation of the first system.
SpecConfig == Init /\ [][NextConfig]_vars

\* Relative tolerance of the numerical comparisons: 2^-10.
Tolerance == FDiv(FromInt(1), FromInt(1024))

\* a is b within the tolerance, relative to scale.
Close(a, b, scale) == FLeq(FAbs(FSub(a, b)), FMul(Tolerance, scale))

\* The identities of the bodies of a list.
Ids(bs) == {bs[i].id : i \in 1..Len(bs)}

\* C1: after update_velocities and every update_position of a tick, if
\* all_bodies_outside is true of the moved bodies the generation has been
\* replaced in that tick by num_bodies new bodies, none shared with the old
\* generation and all with empty trails; if it is false the generation is
\* the moved bodies, and the loop goes on with them unless it was quit.
C1_RestartInSameTick ==
    last.kind = "tick" =>
        /\ ticks > born => last.outside = FALSE
        /\ IF all_bodies_outside(last.moved)
           THEN /\ born = ticks
                /\ Ids(bodies) \cap Ids(last.before) = {}
                /\ Cardinality(Ids(bodies)) = num_bodies
                /\ Len(bodies) = num_bodies
                /\ Len(last.before) = num_bodies
                /\ \A i \in 1..Len(bodies) : bodies[i].trail = <<>>
           ELSE /\ StripAll(bodies) = last.moved
                /\ \A i \in 1..Len(bodies) : bodies[i].trail # <<>>
        /\ running => pc = "run"

\* A tick in which the moved bodies were all outside and were replaced.
C1_Witness ==
    /\ last.kind = "tick"
    /\ all_bodies_outside(last.moved)
    /\ born = ticks
    /\ Ids(bodies) \cap Ids(last.before) = {}

\* Every body has a full trail that ends at the body's position.
FullTrails ==
    \A i \in 1..Len(bodies) :
        /\ Len(bodies[i].trail) = TRAIL_LENGTH
        /\ bodies[i].trail[Len(bodies[i].trail)] = <<bodies[i].x, bodies[i].y>>

\* C4 as stated: after TRAIL_LENGTH or more steps of the loop, counted from
\* its start, every body has a trail of exactly TRAIL_LENGTH positions, the
\* last of which is the body's position.
C4_FullTrailsSinceStart ==
    (pc \in {"run", "exit"} /\ ticks >= TRAIL_LENGTH) => FullTrails

\* C4 as amended: after TRAIL_LENGTH or more steps of the loop counted from
\* the creation of the current generation, every body has a trail of exactly
\* TRAIL_LENGTH positions, the last of which is the body's position.
C4_FullTrailsSinceCreation ==
    (pc \in {"run", "exit"} /\ ticks - born >= TRAIL_LENGTH) => FullTrails

\* A generation that has taken more than TRAIL_LENGTH steps.
C4_Witness ==
    /\ pc = "run" /\ ticks - born > TRAIL_LENGTH
    /\ FullTrails

\* C5, in every state of the loop: each body has a positive mass, the mass
\* and the colour it was constructed with and a trail of at most
\* TRAIL_LENGTH positions, and there are num_bodies bodies, between 2 and 10.
C5_Generation ==
    pc \in {"run", "exit"} =>
        /\ num_bodies \in 2..10
        /\ Len(bodies) = num_bodies
        /\ Len(created) = num_bodies
        /\ \A i \in 1..Len(bodies) :
              /\ FLess(FZero, bodies[i].mass)
              /\ <<bodies[i].id, bodies[i].mass, bodies[i].color>> = created[i]
              /\ Len(bodies[i].trail) <= TRAIL_LENGTH

\* C5, over every step of the loop, restarts included: the number of
\* bodies does not change.
C5_CountKept ==
    [][pc = "run" => (num_bodies' = num_bodies /\ Len(bodies') = Len(bodies))]_vars

\* C5: the invariants of a generation hold in every state, and no step
\* changes the number of bodies.
C5_Invariants == []C5_Generation /\ C5_CountKept

\* A generation created by a restart that has been stepped since.
C5_Witness ==
    /\ pc = "run" /\ born > 0 /\ ticks - born > 0
    /\ Len(bodies) = num_bodies
    /\ \A i \in 1..Len(bodies) :
          /\ bodies[i].id > num_bodies
          /\ Len(bodies[i].trail) = ticks - born

\* The mass-weighted sum of the velocities of the bodies: <<x axis, y axis>>.
Momentum(bs) ==
    <<FSum([i \in 1..Len(bs) |-> FMul(bs[i].mass, bs[i].vx)]),
      FSum([i \in 1..Len(bs) |-> FMul(bs[i].mass, bs[i].vy)])>>

\* The size of the momenta that cancel: the total mass times the largest
\* sampled speed along an axis, 0.5.
MomentumScale(bs) ==
    FMul(FSum([i \in 1..Len(bs) |-> bs[i].mass]), FDiv(FromInt(1), FromInt(2)))

\* C3 as stated: the mass-weighted sum of the velocities of a generation
\* returned by create_system is zero on each axis.
C3_MomentumIsZero ==
    last.kind = "create" => Momentum(bodies) = <<FZero, FZero>>

\* C3 as amended: the mass-weighted sum of the velocities of a generation
\* returned by create_system is zero on each axis within floating-point
\* tolerance, relative to the total mass times the largest sampled speed.
C3_MomentumIsNearZero ==
    last.kind = "create" =>
        /\ Close(Momentum(bodies)[1], FZero, MomentumScale(bodies))
        /\ Close(Momentum(bodies)[2], FZero, MomentumScale(bodies))

\* A generation of ten bodies of manual masses that are not all the same,
\* with a sum that is not exactly zero.
C3_Witness ==
    /\ last.kind = "create"
    /\ Len(bodies) = 10 /\ ~random_masses
    /\ bodies[1].mass # bodies[2].mass
    /\ Momentum(bodies)[1] # FZero

\* The configuration is one create_system may run with.
ValidConfig ==
    /\ num_bodies \in 2..10
    /\ ~random_masses =>
          /\ Len(manual_masses) = num_bodies
          /\ \A i \in 1..Len(manual_masses) :
                /\ FLeq(FromInt(100), manual_masses[i])
                /\ FLeq(manual_masses[i], FromInt(10000))

\* C6: create_system is only ever reached, and bodies only ever exist, with
\* a body count in 2..10 and, in manual mode, num_bodies masses in 100..10000.
C6_OnlyValidConfig ==
    /\ pc \in {"start", "run", "exit"} => ValidConfig
    /\ bodies # <<>> => pc \in {"run", "exit"}

\* C6: an entry that is out of range or not a number leaves the program at
\* the same prompt with the same count and accepted masses and no bodies.
C6_Rejected ==
    [][(/\ last'.kind = "input"
        /\ \/ last'.prompt = "count" /\ last'.line \in BadCountLines
           \/ last'.prompt = "mass" /\ last'.line \in BadMassLines)
       => (/\ ~last'.accepted
           /\ pc' = pc /\ pc \in {"count", "mass"}
           /\ num_bodies' = num_bodies
           /\ manual_masses' = manual_masses
           /\ bodies' = <<>>)]_vars

\* C6: no simulation state is created from an invalid configuration, and
\* every invalid entry is rejected by prompting again.
C6_NoInvalidConfig == []C6_OnlyValidConfig /\ C6_Rejected

\* A mass has just been rejected after another one was accepted.
C6_RejectedWitness ==
    /\ last.kind = "input" /\ last.prompt = "mass" /\ ~last.accepted
    /\ last.line \in BadMassLines
    /\ Len(manual_masses) = 1 /\ pc = "mass"

(* ------------------------------------------------------------------ *)
(* all_bodies_outside applied to placed bodies                         *)
(* ------------------------------------------------------------------ *)

\* Bodies placed in one list.
MaxPlaced == 2

\* Points a body is placed at: beyond, on and within the margin lines.
Points ==
    {<<-200, -200>>, <<2000, 2000>>, <<-150, 400>>, <<400, 400>>,
     <<0 - MARGIN, 400>>, <<400, HEIGHT + MARGIN>>, <<WIDTH + MARGIN, 0 - MARGIN>>,
     <<400, 2000>>, <<1 - MARGIN, HEIGHT + MARGIN - 1>>, <<-1 - MARGIN, 400>>}

Placed(id, x, y) == Body(id, FromInt(x), FromInt(y), FZero, FZero, FromInt(1000), <<0, 0, 0>>)

InitPlaced ==
    /\ pc = "placed"
    /\ num_bodies \in 1..MaxPlaced
    /\ random_masses = FALSE
    /\ manual_masses = <<>>
    /\ PARTICLE_COLORS = <<>>
    /\ \E at \in [1..num_bodies -> Points] :
          bodies = [i \in 1..num_bodies |-> Placed(i, at[i][1], at[i][2])]
    /\ running = TRUE
    /\ rng = 0
    /\ nextId = num_bodies + 1
    /\ ticks = 0
    /\ born = 0
    /\ created = <<>>
    /\ last = [kind |-> "begin"]

\* The boundary monitor is asked about the list.
CheckOutside ==
    /\ pc = "placed"
    /\ last' = [kind |-> "outside", result |-> all_bodies_outside(bodies),
                moved |-> IF last.kind = "moved" THEN <<last.from>> ELSE <<>>]
    /\ UNCHANGED <<pc, config, sim>>

\* Body i is moved to (x, y).
MoveBody(i, x, y) ==
    /\ pc = "placed"
    /\ i \in 1..Len(bodies)
    /\ <<bodies[i].x, bodies[i].y>> # <<FromInt(x), FromInt(y)>>
    /\ bodies' = [bodies EXCEPT ![i].x = FromInt(x), ![i].y = FromInt(y)]
    /\ last' = [kind |-> "moved", from |-> <<i, bodies[i].x, bodies[i].y>>]
    /\ UNCHANGED <<pc, config, running, rng, nextId, ticks, born, created>>

NextPlaced ==
    \/ CheckOutside
    \/ \E i \in 1..MaxPlaced, p \in Points : MoveBody(i, p[1], p[2])

SpecPlaced == InitPlaced /\ [][NextPlaced]_vars

\* Body b is at the point (x, y).
At(b, x, y) == b.x = FromInt(x) /\ b.y = FromInt(y)

\* One coordinate of b is beyond the margin.
Beyond(b) ==
    \/ FLess(b.x, FromInt(0 - MARGIN)) \/ FLess(FromInt(WIDTH + MARGIN), b.x)
    \/ FLess(b.y, FromInt(0 - MARGIN)) \/ FLess(FromInt(HEIGHT + MARGIN), b.y)

\* A coordinate of b is exactly on a margin line.
OnLine(b) ==
    \/ b.x = FromInt(0 - MARGIN) \/ b.x = FromInt(WIDTH + MARGIN)
    \/ b.y = FromInt(0 - MARGIN) \/ b.y = FromInt(HEIGHT + MARGIN)

\* b is on the edge of the extended rectangle.
OnBoundary(b) == OnLine(b) /\ ~Beyond(b)

\* C2: for a list with no coordinate on a margin line, all_bodies_outside
\* returns true exactly when every body has a coordinate beyond the margin,
\* so one body within range makes it false wherever it stands in the list.
C2_OutsideIffAllBeyond ==
    (last.kind = "outside" /\ \A i \in 1..Len(bodies) : ~OnLine(bodies[i]))
        => (last.result <=> \A i \in 1..Len(bodies) : Beyond(bodies[i]))

\* A list whose first body is beyond the margin and whose second is within
\* range has been asked about, and the answer was false.
C2_Witness ==
    /\ last.kind = "outside"
    /\ Len(bodies) = 2
    /\ \A i \in 1..2 : ~OnLine(bodies[i])
    /\ Beyond(bodies[1]) /\ ~Beyond(bodies[2])
    /\ ~last.result

\* C7 as stated: a list that contains a body on the margin boundary makes
\* all_bodies_outside return false.
C7_BoundaryIsInside ==
    (last.kind = "outside" /\ \E i \in 1..Len(bodies) : OnBoundary(bodies[i]))
        => ~last.result

\* C7 as amended: a body on the margin boundary counts as having left; with
\* such a body in the list all_bodies_outside returns false only when some
\* other body is strictly within the extended rectangle.
C7_BoundaryIsOutside ==
    (last.kind = "outside" /\ \E i \in 1..Len(bodies) : OnBoundary(bodies[i]))
        => (last.result <=> \A j \in 1..Len(bodies) : OnBoundary(bodies[j]) \/ Beyond(bodies[j]))

\* A list whose bodies are all on the boundary, the first on the left
\* margin line, answered true.
C7_Witness ==
    /\ last.kind = "outside"
    /\ \A i \in 1..Len(bodies) : OnBoundary(bodies[i])
    /\ At(bodies[1], 0 - MARGIN, 400)
    /\ last.result

\* The two lists of C8: A at (-200,-200) with B at (2000,2000), and the same
\* list after A has been moved to (-150,400).
C8_First ==
    /\ last.kind = "outside" /\ last.moved = <<>>
    /\ Len(bodies) = 2 /\ At(bodies[1], -200, -200) /\ At(bodies[2], 2000, 2000)

C8_Second ==
    /\ last.kind = "outside" /\ last.moved = <<<<1, FromInt(-200), FromInt(-200)>>>>
    /\ Len(bodies) = 2 /\ At(bodies[1], -150, 400) /\ At(bodies[2], 2000, 2000)

\* C8 as stated: all_bodies_outside returns false for the first list and
\* true for the second.
C8_FalseThenTrue == (C8_First => ~last.result) /\ (C8_Second => last.result)

\* C8 as amended: all_bodies_outside returns true for the first list, both
\* bodies being beyond the margin, and true again for the second.
C8_TrueBothTimes == (C8_First => last.result) /\ (C8_Second => last.result)

\* The second list has been asked about.
C8_Witness == C8_Second /\ last.result

(* ------------------------------------------------------------------ *)
(* Steps applied to given bodies                                       *)
(* ------------------------------------------------------------------ *)

\* Bodies in one stepped list, and steps taken.
MaxStepped == 4

MaxSteps == 6

\* Where the k-th body starts: the first two 300 apart along the x axis.
Site(k) ==
    IF k = 1 THEN <<250, 400>>
    ELSE IF k = 2 THEN <<550, 400>>
    ELSE <<400 + 37 * k - 11 * k * k, 115 * k - 190>>

\* The mass of the body that starts at the k-th site.
SiteMass(k) == IF k <= 2 THEN 1000 ELSE 700 * k

\* The velocity of the body that starts at the k-th site: the first two at rest.
SiteVelocity(k) ==
    IF k <= 2 THEN <<FZero, FZero>>
    ELSE <<FDiv(FromInt(2 * k - 7), FromInt(4)), FDiv(FromInt(1), FromInt(2))>>

AtSite(k) ==
    Body(k, FromInt(Site(k)[1]), FromInt(Site(k)[2]), SiteVelocity(k)[1], SiteVelocity(k)[2],
         FromInt(SiteMass(k)), <<0, 0, 0>>)

\* The bodies of the first n sites in the order of the sites or, with flip,
\* in the opposite order, turned by r places.
Turned(n, r, flip) ==
    [i \in 1..n |->
        LET k == ((i - 1 + r) % n) + 1
        IN  AtSite(IF flip THEN n + 1 - k ELSE k)]

\* The lists of the first n bodies that are stepped.
Lists(n) == {Turned(n, r, flip) : r \in 0..(n - 1), flip \in BOOLEAN}

InitStepped ==
    /\ pc = "stepped"
    /\ num_bodies \in 2..MaxStepped
    /\ random_masses = FALSE
    /\ manual_masses = <<>>
    /\ PARTICLE_COLORS = <<>>
    /\ bodies \in Lists(num_bodies)
    /\ running = TRUE
    /\ rng = 0
    /\ nextId = MaxStepped + 1
    /\ ticks = 0
    /\ born = 0
    /\ created = <<>>
    /\ last = [kind |-> "begin"]

\* The list with its first two bodies exchanged.
Swapped(bs) == <<bs[2], bs[1]>> \o SubSeq(bs, 3, Len(bs))

\* The list with its first body moved to the end.
Rotated(bs) == Tail(bs) \o <<bs[1]>>

\* update_velocities(bodies), then body.update_position() for every body.
StepOnce ==
    /\ pc = "stepped"
    /\ ticks < MaxSteps
    /\ \E uv \in {update_velocities(bodies)} :
       \E moved \in {update_positions(uv.bodies)} :
       \E sw \in {update_velocities(Swapped(bodies))} :
       \E ro \in {update_velocities(Rotated(bodies))} :
          /\ bodies' = moved
          /\ last' = [kind |-> "step", before |-> StripAll(bodies),
                      updated |-> StripAll(uv.bodies), moved |-> StripAll(moved),
                      pairs |-> uv.pairs,
                      swapped |-> StripAll(sw.bodies), rotated |-> StripAll(ro.bodies)]
    /\ ticks' = ticks + 1
    /\ UNCHANGED <<pc, config, running, rng, nextId, born, created>>

NextStepped == StepOnce

SpecStepped == InitStepped /\ [][NextStepped]_vars

\* The step just taken was the first step of the two bodies of mass 1000
\* that start at rest 300 apart along the x axis.
C9_Case ==
    /\ last.kind = "step" /\ ticks = 1 /\ Len(bodies) = 2
    /\ {bodies[1].id, bodies[2].id} = {1, 2}

\* Body i of the two now moves along the x axis towards the other one with
\* a speed within the tolerance of `speed`.
C9_Towards(i, speed) ==
    LET b     == bodies[i]
        own   == last.before[i]
        other == last.before[3 - i]
    IN  /\ Sign(b.vx.m) = Sign(FSub(other.x, own.x).m)
        /\ FLeq(FAbs(b.vy), FMul(Tolerance, FAbs(b.vx)))
        /\ Close(FSqrt(FAdd(FMul(b.vx, b.vx), FMul(b.vy, b.vy))), speed, speed)

\* G * 1000 * 1000 / (300^2 + SOFTENING^2) * DT
C9_ForceTimesDT ==
    FMul(FDiv(FMul(FMul(G, FromInt(1000)), FromInt(1000)),
              FAdd(FromInt(300 * 300), FMul(SOFTENING, SOFTENING))), FromInt(DT))

\* G * 1000 / (300^2 + SOFTENING^2) * DT
C9_AccelerationTimesDT ==
    FMul(FDiv(FMul(G, FromInt(1000)),
              FAdd(FromInt(300 * 300), FMul(SOFTENING, SOFTENING))), FromInt(DT))

\* C9 as stated: after one step each of the two bodies moves towards the
\* other along the x axis with speed G*1000*1000/(300^2+SOFTENING^2)*DT,
\* within tolerance.
C9_SpeedIsForce == C9_Case => \A i \in 1..2 : C9_Towards(i, C9_ForceTimesDT)

\* C9 as amended: after one step each of the two bodies moves towards the
\* other along the x axis with speed G*1000/(300^2+SOFTENING^2)*DT, the
\* force divided by the body's own mass, within tolerance.
C9_SpeedIsAcceleration == C9_Case => \A i \in 1..2 : C9_Towards(i, C9_AccelerationTimesDT)

\* The two bodies have taken their first step and are approaching; the y
\* component of the second is the rounding residue of sin(pi).
C9_Witness ==
    /\ C9_Case
    /\ bodies[1].id = 1 /\ bodies[1].vx.m > 0 /\ bodies[2].vx.m < 0
    /\ bodies[1].vy = FZero /\ FLess(FZero, bodies[2].vy)

\* The indices of the other bodies of a list of n, in list order.
Others(n, i) == [k \in 1..(n - 1) |-> IF k < i THEN k ELSE k + 1]

\* The acceleration of bs[i] by the k-th other body of the list bs.
PairAcceleration(bs, i, k) ==
    LET f == compute_gravitational_force(bs[i], bs[Others(Len(bs), i)[k]])
    IN  <<FDiv(f[1], bs[i].mass), FDiv(f[2], bs[i].mass)>>

\* The sum, in list order, of the accelerations of bs[i] by every other body.
NetAcceleration(bs, i) ==
    <<FSum([k \in 1..(Len(bs) - 1) |-> PairAcceleration(bs, i, k)[1]]),
      FSum([k \in 1..(Len(bs) - 1) |-> PairAcceleration(bs, i, k)[2]])>>

\* The size of the terms that make up the new velocity of bs[i].
VelocityScale(bs, i) ==
    FAdd(FAdd(FAbs(bs[i].vx), FAbs(bs[i].vy)),
         FMul(FSum([k \in 1..(Len(bs) - 1) |->
                       FAdd(FAbs(PairAcceleration(bs, i, k)[1]),
                            FAbs(PairAcceleration(bs, i, k)[2]))]), FromInt(DT)))

\* Where the body with identity id stands in bs.
IndexOf(bs, id) == CHOOSE i \in 1..Len(bs) : bs[i].id = id

\* update_velocities has changed no position, and every new velocity is the
\* old one plus DT times the net acceleration at the positions before the step.
C10_FromSnapshot ==
    \A i \in 1..Len(last.before) :
        /\ last.updated[i].x = last.before[i].x
        /\ last.updated[i].y = last.before[i].y
        /\ last.updated[i].vx =
               FAdd(last.before[i].vx, FMul(NetAcceleration(last.before, i)[1], FromInt(DT)))
        /\ last.updated[i].vy =
               FAdd(last.before[i].vy, FMul(NetAcceleration(last.before, i)[2], FromInt(DT)))

\* Every ordered pair of distinct bodies has been evaluated exactly once.
C10_EachPairOnce ==
    LET ids == {last.before[i].id : i \in 1..Len(last.before)}
    IN  /\ Len(last.pairs) = Len(last.before) * (Len(last.before) - 1)
        /\ {last.pairs[k] : k \in 1..Len(last.pairs)} =
               {pr \in ids \X ids : pr[1] # pr[2]}

\* Every position has then become the old position plus DT times the body's
\* updated velocity.
C10_ThenPositions ==
    \A i \in 1..Len(last.before) :
        /\ last.moved[i].vx = last.updated[i].vx
        /\ last.moved[i].vy = last.updated[i].vy
        /\ last.moved[i].x = FAdd(last.before[i].x, FMul(last.updated[i].vx, FromInt(DT)))
        /\ last.moved[i].y = FAdd(last.before[i].y, FMul(last.updated[i].vy, FromInt(DT)))

\* The list in another order gives every body the same new velocity.
C10_SameInOrder(other) ==
    \A i \in 1..Len(last.updated) :
        LET j == IndexOf(other, last.updated[i].id)
        IN  other[j].vx = last.updated[i].vx /\ other[j].vy = last.updated[i].vy

\* The list in another order gives every body the same new velocity up to
\* the rounding of the sum.
C10_CloseInOrder(other) ==
    \A i \in 1..Len(last.updated) :
        LET j == IndexOf(other, last.updated[i].id)
        IN  /\ Close(other[j].vx, last.updated[i].vx, VelocityScale(last.before, i))
            /\ Close(other[j].vy, last.updated[i].vy, VelocityScale(last.before, i))

\* C10 as stated: update_velocities changes no position; every new velocity
\* is the old one plus DT times the sum over every other body, each ordered
\* pair evaluated once, of the acceleration at the pre-step positions, the
\* same whatever the order of the list; then every position becomes the old
\* position plus DT times the updated velocity.
C10_TwoPassAnyOrder ==
    last.kind = "step" =>
        /\ C10_FromSnapshot
        /\ C10_EachPairOnce
        /\ C10_ThenPositions
        /\ C10_SameInOrder(last.swapped)
        /\ C10_SameInOrder(last.rotated)

\* C10 as amended: as stated, but the new velocities are the same in every
\* order of the list only up to the rounding of the floating-point sum;
\* they are identical for lists of up to three bodies.
C10_TwoPassUpToRounding ==
    last.kind = "step" =>
        /\ C10_FromSnapshot
        /\ C10_EachPairOnce
        /\ C10_ThenPositions
        /\ C10_CloseInOrder(last.swapped)
        /\ C10_CloseInOrder(last.rotated)
        /\ Len(last.before) <= 3 =>
               C10_SameInOrder(last.swapped) /\ C10_SameInOrder(last.rotated)

\* A step of four bodies in which some body has moved along both axes and
\* the rotated list gave some body another velocity.
C10_Witness ==
    /\ last.kind = "step" /\ Len(bodies) = 4
    /\ \E i \in 1..4 : last.moved[i].x # last.before[i].x /\ last.moved[i].y # last.before[i].y
    /\ ~C10_SameInOrder(last.rotated)
====
